---- MODULE Spec2Model ----
(***************************************************************************)
(* Model of app.py, the Streamlit script of the clinical-trial audit       *)
(* dashboard.  One script run is a sequence of steps, one per block of    *)
(* the script, executed top to bottom; st.session_state and the external  *)
(* audit_logs table survive between runs, the script's locals do not.     *)
(* Calls that only render (st.dataframe, st.success, components.html ...) *)
(* change no program state and are not modelled; st.set_page_config on    *)
(* line 34 is taken to return normally.  A client call on the audit table *)
(* either succeeds or raises.                                             *)
(***************************************************************************)
EXTENDS Integers, Sequences, FiniteSets, TLC

VARIABLES
    store,          \* the external table audit_logs, rows in insertion order
    clock,          \* the reading of datetime.utcnow(), later at every read
    issued,         \* number of uuid4() values handed out so far
    session_state,  \* st.session_state: a function on the keys that are set
    pc,             \* the block of the script the current run is at
    button,         \* the button whose press started this run ("none": a plain rerun)
    action,         \* local `action`  (st.text_input "Enter action")
    source,         \* local `source`  (st.selectbox "Source")
    pid,            \* local `pid`     (st.text_input "Patient ID")
    hr,             \* local `hr`      (st.number_input "Heart Rate")
    logs,           \* local `logs`
    summary,        \* locals of the compliance block, <<>> when it was skipped
    built,          \* every dict log_audit_event has returned, in call order
    call            \* a direct call of the pipeline functions: [fn, arg, ret, done]

vars == <<store, clock, issued, session_state, pc, button, action, source,
          pid, hr, logs, summary, built, call>>

-----------------------------------------------------------------------------
(* Bounds of the model.                                                    *)

\* rows per generated batch (stands for the default n of the generator)
BatchN == 2
\* presses of "Submit" whose insert reaches the table, session specification
MaxSubmits == 1
\* presses of "Submit Entry", session specification
MaxEntries == 1
\* presses of "Submit" whose insert reaches the table, audit specification
MaxAuditSubmits == 2
\* length of the argument of a direct pipeline call
MaxLen == 3

-----------------------------------------------------------------------------
(* Python values.                                                          *)

\* None / NaN in a numeric column (valid ages and heart rates are >= 0)
NaN == -1
\* None / NaN in a text column
NoText == "<NA>"

\* pd.isna / pd.notna on a value of a numeric column
isna(x) == x = NaN
notna(x) == ~isna(x)

\* fillna that fills nothing
fillnaSkip(x, d) == x

\* Series.fillna(d) on a value of a text column
fillna(x, d) == IF x = NoText THEN d ELSE x

\* str values that are inspected character by character are sequences of
\* one-character strings
Whitespace == {" ", "\t", "\n"}
UPPER == <<"A","B","C","D","E","F","G","H","I","J","K","L","M",
           "N","O","P","Q","R","S","T","U","V","W","X","Y","Z">>
LOWERCASE == <<"a","b","c","d","e","f","g","h","i","j","k","l","m",
               "n","o","p","q","r","s","t","u","v","w","x","y","z">>

\* str.lower() on one character
lowerChar(c) ==
    IF \E i \in 1..Len(UPPER) : UPPER[i] = c
    THEN LOWERCASE[CHOOSE i \in 1..Len(UPPER) : UPPER[i] = c]
    ELSE c

\* str.lower()
lower(s) == [i \in 1..Len(s) |-> lowerChar(s[i])]

\* str.strip(): drop leading and trailing whitespace, keep inner whitespace
strip(s) ==
    LET keep == {i \in 1..Len(s) : s[i] \notin Whitespace}
    IN  IF keep = {} THEN <<>>
        ELSE LET lo == CHOOSE i \in keep : \A j \in keep : i <= j
                 hi == CHOOSE i \in keep : \A j \in keep : j <= i
             IN  SubSeq(s, lo, hi)

\* keyword in a  (substring test)
Contains(keyword, a) ==
    \E i \in 0..(Len(a) - Len(keyword)) : SubSeq(a, i + 1, i + Len(keyword)) = keyword

\* list.reverse / ORDER BY ... DESC on a list kept in ascending order
Reverse(s) == [i \in 1..Len(s) |-> s[Len(s) + 1 - i]]

\* every sequence over S of length exactly n
SeqN(S, n) == [1..n -> S]
\* every sequence over S of length at most n
SeqUpTo(S, n) == UNION {SeqN(S, k) : k \in 0..n}

-----------------------------------------------------------------------------
(* The data pipeline: generate -> map -> detect.                           *)

\* rows the generator can draw (a sample of its distributions): one row per
\* combination of alerts, a repeated subject code, several gender spellings
SampleRows ==
    { [client_code |-> "SUBJ-001", age_years |-> 18, gender_text |-> "Male",
       heartRate |-> 120, visit_date |-> "2024-05-17"],
      [client_code |-> "SUBJ-002", age_years |-> NaN, gender_text |-> "Unknown",
       heartRate |-> 350, visit_date |-> "2024-05-17"],
      [client_code |-> "SUBJ-001", age_years |-> NaN, gender_text |-> "F",
       heartRate |-> NaN, visit_date |-> "2024-05-17"],
      [client_code |-> "SUBJ-002", age_years |-> 18, gender_text |-> "Female",
       heartRate |-> 350, visit_date |-> "2024-05-17"] }

\* generate_messy_clinical_data(n): the frames a call may return
generate_messy_clinical_data(n) == SeqN(SampleRows, n)

\* the dict handed to Series.map
SexTable == [g \in {"Male", "Female", "M", "F"} |->
                IF g \in {"Male", "M"} THEN "M" ELSE "F"]

\* Series.map(dict) on one value: NaN where the value is no key
MapSex(g) == IF g \in DOMAIN SexTable THEN SexTable[g] ELSE NoText

map_to_sdtm(raw_df) ==
    [i \in 1..Len(raw_df) |->
        [USUBJID |-> raw_df[i].client_code,
         AGE     |-> raw_df[i].age_years,
         SEX     |-> fillna(MapSex(raw_df[i].gender_text), "U"),
         HR      |-> raw_df[i].heartRate,
         VSDTC   |-> raw_df[i].visit_date]]

\* the heart-rate cutoff of the detector and of the data-entry form
HRLimit == 300

\* the alert built from the data-entry form's patient id instead of the row's
HeartRateAlertPid(row) ==
    [USUBJID |-> pid,
     Risk_Category |-> "Safety",
     Issue |-> "Improbable Heart Rate",
     AI_Reasoning |-> "Value exceeds known physiological limits.",
     Recommended_Action |-> "Immediate manual review"]

HeartRateAlert(row) ==
    [USUBJID |-> row.USUBJID,
     Risk_Category |-> "Safety",
     Issue |-> "Improbable Heart Rate",
     AI_Reasoning |-> "Value exceeds known physiological limits.",
     Recommended_Action |-> "Immediate manual review"]

MissingAgeAlert(row) ==
    [USUBJID |-> row.USUBJID,
     Risk_Category |-> "Data Quality",
     Issue |-> "Missing Age",
     AI_Reasoning |-> "Age required for stratification and analysis.",
     Recommended_Action |-> "Query site"]

\* the loop body with the cutoff itself counted as improbable
RowAlertsInclusive(row) ==
    (IF notna(row.HR) /\ row.HR >= HRLimit THEN <<HeartRateAlert(row)>> ELSE <<>>)
    \o (IF isna(row.AGE) THEN <<MissingAgeAlert(row)>> ELSE <<>>)

\* the alerts one iteration of the loop appends
RowAlerts(row) ==
    (IF notna(row.HR) /\ row.HR > HRLimit THEN <<HeartRateAlert(row)>> ELSE <<>>)
    \o (IF isna(row.AGE) THEN <<MissingAgeAlert(row)>> ELSE <<>>)

RECURSIVE agentic_risk_detection(_)
agentic_risk_detection(sdtm_df) ==
    IF sdtm_df = <<>> THEN <<>>
    ELSE RowAlerts(Head(sdtm_df)) \o agentic_risk_detection(Tail(sdtm_df))

-----------------------------------------------------------------------------
(* The audit event recorder.                                               *)

\* log_audit_event(event, payload); str(uuid.uuid4()) is a value never handed
\* out before, datetime.utcnow().isoformat() the current reading of the clock
log_audit_event(event, payload) ==
    [audit_id   |-> issued + 1,
     timestamp  |-> clock,
     event_type |-> event,
     details    |-> payload]

-----------------------------------------------------------------------------
(* The external table audit_logs and its client.                           *)

\* .limit(100) of the compliance query
QueryLimit == 100

\* the dict the Submit handler inserts
SubmitRow(a, s) == [action |-> a, metadata |-> [source |-> s]]

\* an insert that is sent twice
InsertTwice(table, data) ==
    LET row == [action |-> data.action, created_at |-> Len(table) + 1,
                metadata |-> data.metadata]
    IN  Append(Append(table, row), [row EXCEPT !.created_at = Len(table) + 2])

\* .insert(data).execute() when the call succeeds: the table stamps the row
\* with created_at, here the row's position in insertion order
Insert(table, data) ==
    Append(table, [action |-> data.action, created_at |-> Len(table) + 1,
                   metadata |-> data.metadata])

\* .select("*").order("created_at", desc=True).execute().data
SelectAll(table) == Reverse(table)

\* the query with the order ascending: the limit keeps the oldest rows
SelectOldest(table) ==
    IF Len(table) <= QueryLimit THEN Reverse(table)
    ELSE Reverse(SubSeq(table, 1, QueryLimit))

\* .select(...).order("created_at", desc=True).limit(100).execute().data
SelectRecent(table) ==
    LET rows == Reverse(table)
    IN  IF Len(rows) <= QueryLimit THEN rows ELSE SubSeq(rows, 1, QueryLimit)

-----------------------------------------------------------------------------
(* The compliance risk block.                                              *)

risk_keywords ==
    << <<"e","r","r","o","r">>,
       <<"f","a","i","l">>,
       <<"u","n","a","u","t","h","o","r","i","z","e","d">>,
       <<"o","v","e","r","r","i","d","e">>,
       <<"d","e","l","e","t","e","d">> >>

\* total_events >= 50
HighActivity == 50

\* log["action"].strip().lower()
Normalize(a) == lower(strip(a))

\* any(keyword in a for keyword in risk_keywords)
IsRisk(a) == \E k \in 1..Len(risk_keywords) : Contains(risk_keywords[k], a)

\* the tier with the threshold excluded
ActivityTierStrict(total_events) ==
    IF total_events > HighActivity
    THEN [activity_rate |-> "High", risk_level |-> "Medium"]
    ELSE [activity_rate |-> "Normal", risk_level |-> "Low"]

\* activity_rate and risk_level after the `if total_events >= 50` statement
ActivityTier(total_events) ==
    IF total_events >= HighActivity
    THEN [activity_rate |-> "High", risk_level |-> "Medium"]
    ELSE [activity_rate |-> "Normal", risk_level |-> "Low"]

\* the override that only lifts a Low level
RiskOverrideLowOnly(risk_events, risk_level) ==
    IF risk_events # <<>> /\ risk_level = "Low" THEN "High" ELSE risk_level

\* risk_level after the `if risk_events` statement
RiskOverride(risk_events, risk_level) ==
    IF risk_events # <<>> THEN "High" ELSE risk_level

\* the else branch of `if not logs`: the locals it leaves
Summarize(rows) ==
    LET actions      == [i \in 1..Len(rows) |-> Normalize(rows[i].action)]
        total_events == Len(actions)
        risk_events  == SelectSeq(actions, IsRisk)
        tier         == ActivityTier(total_events)
    IN  [total_events  |-> total_events,
         risk_events   |-> risk_events,
         activity_rate |-> tier.activity_rate,
         risk_level    |-> RiskOverride(risk_events, tier.risk_level)]

-----------------------------------------------------------------------------
(* Widget values.                                                          *)

\* what each widget returns when the user has not touched it
DefaultAction == <<>>
DefaultSource == "frontend"
DefaultPid == "SUBJ-001"
DefaultHr == 0

\* options of st.selectbox("Source", ...)
Sources == {"frontend", "ai", "manual"}

\* the buttons of the page; "none" is a rerun no button started
Buttons == {"none", "Submit", "Submit Entry", "Generate Synthetic Data"}

\* texts typed into "Enter action"
A_login == <<"l","o","g","i","n">>
A_FAIL == <<" ","F","A","I","L","\t">>
A_f_ail == <<"f"," ","a","i","l">>
A_Unauthorized == <<"U","n","a","u","t","h","o","r","i","z","e","d">>
A_error == <<"d","b"," ","E","r","r","o","r">>
A_override == <<"O","V","E","R","R","I","D","E","S">>
A_deleted == <<"\n","d","e","l","e","t","e","d">>

\* values typed into the data-entry form
Pids == {"SUBJ-001", "SUBJ-002"}
HrInputs == {301}

-----------------------------------------------------------------------------
(* One script run.                                                         *)

\* st.session_state[key] = value
Put(state, key, value) ==
    [k \in (DOMAIN state) \cup {key} |-> IF k = key THEN value ELSE state[k]]

NoCall == [fn |-> "none", arg |-> <<>>, ret |-> <<>>, done |-> TRUE]

Init ==
    /\ store = <<>>
    /\ clock = 1
    /\ issued = 0
    /\ session_state = [k \in {} |-> 0]
    /\ pc = "idle"
    /\ button = "none"
    /\ action = DefaultAction
    /\ source = DefaultSource
    /\ pid = DefaultPid
    /\ hr = DefaultHr
    /\ logs = <<>>
    /\ summary = <<>>
    /\ built = <<>>
    /\ call = NoCall

\* The page is loaded or a widget fires: the script starts from its first
\* line with the widgets' current values.  No button exists before the
\* first run has drawn the page.
StartRun(b, a, s, p, h) ==
    /\ pc \in {"idle", "done", "aborted"}
    /\ pc = "idle" => b = "none"
    /\ button' = b
    /\ action' = a
    /\ source' = s
    /\ pid' = p
    /\ hr' = h
    /\ logs' = <<>>
    /\ summary' = <<>>
    /\ pc' = "submit"
    /\ UNCHANGED <<store, clock, issued, session_state, built, call>>

\* if st.button("Submit"): insert; an exception of the client ends the run
SubmitBlock ==
    /\ pc = "submit"
    /\ IF button = "Submit"
       THEN \E ok \in BOOLEAN :
               IF ok
               THEN /\ store' = Insert(store, SubmitRow(action, source))
                    /\ pc' = "listing"
               ELSE /\ pc' = "aborted"
                    /\ UNCHANGED store
       ELSE /\ pc' = "listing"
            /\ UNCHANGED store
    /\ UNCHANGED <<clock, issued, session_state, button, action, source, pid, hr,
                   logs, summary, built, call>>

\* logs = supabase...select("*")...execute(); an exception ends the run
ListingBlock ==
    /\ pc = "listing"
    /\ \E ok \in BOOLEAN :
          IF ok
          THEN /\ logs' = SelectAll(store)
               /\ pc' = "entry"
          ELSE /\ pc' = "aborted"
               /\ UNCHANGED logs
    /\ UNCHANGED <<store, clock, issued, session_state, button, action, source,
                   pid, hr, summary, built, call>>

\* tabs[0]: if st.button("Submit Entry")
EntryBlock ==
    /\ pc = "entry"
    /\ IF button = "Submit Entry"
       THEN LET audit == log_audit_event("Manual Entry", [USUBJID |-> pid, HR |-> hr])
            IN  /\ session_state' = Put(session_state, "audit", audit)
                /\ built' = Append(built, audit)
                /\ issued' = issued + 1
                /\ clock' = clock + 1
       ELSE UNCHANGED <<session_state, built, issued, clock>>
    /\ pc' = "generate"
    /\ UNCHANGED <<store, button, action, source, pid, hr, logs, summary, call>>

\* tabs[1]: if st.button("Generate Synthetic Data")
GenerateBlock ==
    /\ pc = "generate"
    /\ IF button = "Generate Synthetic Data"
       THEN \E df \in generate_messy_clinical_data(BatchN) :
               session_state' = Put(session_state, "raw_df", df)
       ELSE UNCHANGED session_state
    /\ pc' = "mapping"
    /\ UNCHANGED <<store, clock, issued, button, action, source, pid, hr, logs,
                   summary, built, call>>

\* the mapping done only while no canonical table exists yet
MapRawOnce(state) ==
    IF "raw_df" \in DOMAIN state /\ "sdtm_df" \notin DOMAIN state
    THEN Put(state, "sdtm_df", map_to_sdtm(state["raw_df"]))
    ELSE state

\* the assignment of tabs[2]
MapRaw(state) ==
    IF "raw_df" \in DOMAIN state
    THEN Put(state, "sdtm_df", map_to_sdtm(state["raw_df"]))
    ELSE state

\* tabs[2]; tabs[3] after it only draws the chart
MappingBlock ==
    /\ pc = "mapping"
    /\ session_state' = MapRaw(session_state)
    /\ pc' = "insights"
    /\ UNCHANGED <<store, clock, issued, button, action, source, pid, hr, logs,
                   summary, built, call>>

\* the assignment of tabs[4]
DetectRisks(state) ==
    IF "sdtm_df" \in DOMAIN state
    THEN Put(state, "risks", agentic_risk_detection(state["sdtm_df"]))
    ELSE state

\* tabs[4]; tabs[5] after it only shows session_state["audit"]
InsightsBlock ==
    /\ pc = "insights"
    /\ session_state' = DetectRisks(session_state)
    /\ pc' = "summary"
    /\ UNCHANGED <<store, clock, issued, button, action, source, pid, hr, logs,
                   summary, built, call>>

\* the try/except around the compliance query: the rows, or [] on an exception
TryRecent(table, ok) == IF ok THEN SelectRecent(table) ELSE <<>>

\* the compliance block: `if not logs` skips the assessment
Assess(rows) == IF rows = <<>> THEN <<>> ELSE <<Summarize(rows)>>

\* the compliance query and assessment, the last block of the script
SummaryBlock ==
    /\ pc = "summary"
    /\ \E ok \in BOOLEAN :
          /\ logs' = TryRecent(store, ok)
          /\ summary' = Assess(logs')
    /\ pc' = "done"
    /\ UNCHANGED <<store, clock, issued, session_state, button, action, source,
                   pid, hr, built, call>>

Blocks ==
    \/ SubmitBlock
    \/ ListingBlock
    \/ EntryBlock
    \/ GenerateBlock
    \/ MappingBlock
    \/ InsightsBlock
    \/ SummaryBlock

-----------------------------------------------------------------------------
(* The session: any button, a few rows in the table.                       *)

SessionActions == {A_FAIL}

\* a user leaves the widgets of the forms they do not submit untouched
UserInput(b, a, s, p, h) ==
    /\ b = "Submit" => Len(store) < MaxSubmits
    /\ b # "Submit" => a = DefaultAction /\ s = DefaultSource
    /\ b = "Submit Entry" => issued < MaxEntries
    /\ b # "Submit Entry" => p = DefaultPid /\ h = DefaultHr

UserRun ==
    \E b \in Buttons, a \in SessionActions \cup {DefaultAction}, s \in Sources,
       p \in Pids, h \in HrInputs \cup {DefaultHr} :
        /\ b = "Submit" => a \in SessionActions
        /\ b = "Submit Entry" => h \in HrInputs
        /\ UserInput(b, a, s, p, h) /\ StartRun(b, a, s, p, h)

Next == UserRun \/ Blocks

Spec == Init /\ [][Next]_vars

-----------------------------------------------------------------------------
(* The audit table in use: earlier Submit presses have filled it up to the *)
(* activity threshold or the query limit, and the session submits more.    *)

RoutineAction == A_login

AuditActions ==
    {A_login, A_FAIL, A_f_ail, A_Unauthorized, A_error, A_override, A_deleted}

\* rows in the table when the session opens
Preloads == {0, 48, 99}

\* the table after n Submit presses: the k-th submitted A_FAIL (none when
\* k = 0), the others the routine action
Preloaded(n, k) ==
    [i \in 1..n |->
        [action     |-> IF i = k THEN A_FAIL ELSE RoutineAction,
         created_at |-> i,
         metadata   |-> [source |-> DefaultSource]]]

InitAudit ==
    /\ \E n \in Preloads : \E k \in {0, 1, n} : store = Preloaded(n, k)
    /\ clock = 1
    /\ issued = 0
    /\ session_state = [k \in {} |-> 0]
    /\ pc = "idle"
    /\ button = "none"
    /\ action = DefaultAction
    /\ source = DefaultSource
    /\ pid = DefaultPid
    /\ hr = DefaultHr
    /\ logs = <<>>
    /\ summary = <<>>
    /\ built = <<>>
    /\ call = NoCall

AuditInput(b, a) ==
    /\ b = "Submit" =>
          /\ a \in AuditActions
          /\ \E n \in Preloads : n <= Len(store) /\ Len(store) < n + MaxAuditSubmits
    /\ b # "Submit" => a = DefaultAction

AuditRun ==
    \E b \in {"none", "Submit"}, a \in AuditActions \cup {DefaultAction} :
        AuditInput(b, a) /\ StartRun(b, a, DefaultSource, DefaultPid, DefaultHr)

NextAudit == AuditRun \/ Blocks

SpecAudit == InitAudit /\ [][NextAudit]_vars

-----------------------------------------------------------------------------
(* The pipeline functions called directly, on any frame of raw records.    *)

\* raw records: every gender spelling (free text and absent included) on one
\* vitals row, and every combination of code, age and heart rate around the
\* cutoff on one gender
RawRows ==
    [client_code : {"SUBJ-001"}, age_years : {18},
     gender_text : {"Male", "Female", "M", "F", "Unknown", "male", NoText},
     heartRate : {120}, visit_date : {"2024-05-17"}]
    \cup
    [client_code : {"SUBJ-001", "SUBJ-002"}, age_years : {18, NaN},
     gender_text : {"Male"},
     heartRate : {NaN, 300, 301}, visit_date : {"2024-05-17"}]

InitCalls ==
    /\ store = <<>>
    /\ clock = 1
    /\ issued = 0
    /\ session_state = [k \in {} |-> 0]
    /\ pc = "idle"
    /\ button = "none"
    /\ action = DefaultAction
    /\ source = DefaultSource
    /\ pid = DefaultPid
    /\ hr = DefaultHr
    /\ logs = <<>>
    /\ summary = <<>>
    /\ built = <<>>
    /\ \E raw_df \in SeqUpTo(RawRows, MaxLen) :
          call = [fn |-> "map_to_sdtm", arg |-> raw_df, ret |-> <<>>, done |-> FALSE]

\* the called function runs to its return statement
Return ==
    /\ ~call.done
    /\ call' = [call EXCEPT
                   !.ret = IF call.fn = "map_to_sdtm"
                           THEN map_to_sdtm(call.arg)
                           ELSE agentic_risk_detection(call.arg),
                   !.done = TRUE]
    /\ UNCHANGED <<store, clock, issued, session_state, pc, button, action,
                   source, pid, hr, logs, summary, built>>

\* the frame map_to_sdtm returned is handed to agentic_risk_detection
Chain ==
    /\ call.done
    /\ call.fn = "map_to_sdtm"
    /\ call' = [fn |-> "agentic_risk_detection", arg |-> call.ret,
                ret |-> <<>>, done |-> FALSE]
    /\ UNCHANGED <<store, clock, issued, session_state, pc, button, action,
                   source, pid, hr, logs, summary, built>>

NextCalls == Return \/ Chain

SpecCalls == InitCalls /\ [][NextCalls]_vars

-----------------------------------------------------------------------------
(* Properties.                                                             *)

\* the submitted texts that, trimmed and lowercased, contain a risk keyword
RiskyTexts == {A_FAIL, A_Unauthorized, A_error, A_override, A_deleted}

\* some row of rs carries a risky text
AnyRisky(rs) == \E i \in DOMAIN rs : rs[i].action \in RiskyTexts

\* C1: whenever the rows read for the assessment hold at least one action
\* that contains a risk keyword after trimming and lowercasing, the
\* assessment is made and its risk level is "High", whatever the number of
\* rows and whatever the activity tier.
C1_RiskEventsForceHigh ==
    (pc = "done" /\ AnyRisky(logs)) =>
        /\ summary # <<>>
        /\ summary[1].risk_events # <<>>
        /\ summary[1].risk_level = "High"

\* a run that assessed at least 50 rows, the newest one risky with an
\* upper-case spelling, and reported "High" over the "Medium" tier
C1_Witness ==
    /\ pc = "done"
    /\ summary # <<>>
    /\ summary[1].total_events >= 50
    /\ summary[1].activity_rate = "High"
    /\ logs[1].action = A_Unauthorized
    /\ Len(summary[1].risk_events) = 1
    /\ summary[1].risk_level = "High"

\* C2: a failing call to the audit store never ends a script run early:
\* no run is aborted.
C2_StoreFailureNonFatal == pc # "aborted"

\* C3: every audit event log_audit_event has built is a row of the external
\* audit table.
C3_EveryBuiltEventPersisted ==
    \A i \in DOMAIN built : \E j \in DOMAIN store : store[j] = built[i]

\* C4: the detector returns, record by record in input order, a heart-rate
\* alert iff HR is present and above 300, then a missing-age alert iff AGE
\* is absent, each naming the record's subject; nothing else.
C4_DetectorExact ==
    (call.fn = "agentic_risk_detection" /\ call.done) =>
        LET recs == call.arg
            out  == call.ret
            hot(i)  == IF recs[i].HR # NaN /\ recs[i].HR > 300 THEN 1 ELSE 0
            aged(i) == IF recs[i].AGE = NaN THEN 1 ELSE 0
            off[i \in 0..Len(recs)] ==
                IF i = 0 THEN 0 ELSE off[i - 1] + hot(i) + aged(i)
        IN  /\ Len(out) = off[Len(recs)]
            /\ \A i \in DOMAIN recs :
                  /\ hot(i) = 1 =>
                        /\ out[off[i - 1] + 1].USUBJID = recs[i].USUBJID
                        /\ out[off[i - 1] + 1].Risk_Category = "Safety"
                        /\ out[off[i - 1] + 1].Issue = "Improbable Heart Rate"
                  /\ aged(i) = 1 =>
                        /\ out[off[i]].USUBJID = recs[i].USUBJID
                        /\ out[off[i]].Risk_Category = "Data Quality"
                        /\ out[off[i]].Issue = "Missing Age"

\* a scan of two records: the first yields both alerts, heart rate first,
\* the second sits on the cutoff with its age present and yields none
C4_Witness ==
    /\ call.fn = "agentic_risk_detection"
    /\ call.done
    /\ Len(call.arg) = 2
    /\ call.arg[1].HR = 301 /\ call.arg[1].AGE = NaN
    /\ call.arg[2].HR = 300 /\ call.arg[2].AGE = 18
    /\ Len(call.ret) = 2
    /\ call.ret[1].Issue = "Improbable Heart Rate"
    /\ call.ret[2].Issue = "Missing Age"

\* C5: once a run has generated, mapped and scanned a batch, every alert
\* names the subject of some canonical record of that batch and there are
\* at most two alerts per generated record.
C5_AlertsWithinBatch ==
    (pc = "done" /\ "raw_df" \in DOMAIN session_state) =>
        LET raw   == session_state["raw_df"]
            sdtm  == session_state["sdtm_df"]
            risks == session_state["risks"]
        IN  /\ Len(raw) = BatchN
            /\ Len(sdtm) = Len(raw)
            /\ \A i \in DOMAIN risks :
                  \E j \in DOMAIN sdtm : sdtm[j].USUBJID = risks[i].USUBJID
            /\ Len(risks) <= 2 * Len(raw)

\* a run that generated a batch in which every record yields both alerts
C5_Witness ==
    /\ pc = "done"
    /\ button = "Generate Synthetic Data"
    /\ "risks" \in DOMAIN session_state
    /\ Len(session_state["risks"]) = 2 * BatchN
    /\ \A i \in DOMAIN session_state["risks"] :
          session_state["risks"][i].USUBJID = "SUBJ-002"

\* C6: the mapper returns one canonical record per raw record, in order,
\* with the identifier, age, heart rate and visit date copied and the sex
\* code "M" for Male/M, "F" for Female/F and "U" for anything else.
C6_MapperExact ==
    (call.fn = "map_to_sdtm" /\ call.done) =>
        /\ Len(call.ret) = Len(call.arg)
        /\ \A i \in DOMAIN call.arg :
              LET r == call.arg[i]
                  c == call.ret[i]
              IN  /\ c.USUBJID = r.client_code
                  /\ c.AGE = r.age_years
                  /\ c.HR = r.heartRate
                  /\ c.VSDTC = r.visit_date
                  /\ c.SEX \in {"M", "F", "U"}
                  /\ c.SEX = "M" <=> r.gender_text \in {"Male", "M"}
                  /\ c.SEX = "F" <=> r.gender_text \in {"Female", "F"}

\* a mapped frame whose records have an absent gender, a free-text gender
\* and an absent age and heart rate
C6_Witness ==
    /\ call.fn = "map_to_sdtm"
    /\ call.done
    /\ Len(call.arg) = 3
    /\ call.arg[1].gender_text = NoText /\ call.ret[1].SEX = "U"
    /\ call.arg[2].gender_text = "male" /\ call.ret[2].SEX = "U"
    /\ call.arg[3].age_years = NaN /\ call.arg[3].heartRate = NaN
    /\ call.ret[3].SEX = "M"

\* C7: the activity rate is "High" iff at least 50 rows were assessed, never
\* more than 100 are; without any risky action the risk level is "Medium"
\* from 50 rows on and "Low" below.
C7_ActivityTiers ==
    (pc = "done" /\ summary # <<>>) =>
        LET t == summary[1].total_events
        IN  /\ t = Len(logs)
            /\ t >= 1 /\ t <= 100
            /\ t = (IF Len(store) <= 100 THEN Len(store) ELSE 100)
            /\ summary[1].activity_rate = (IF t >= 50 THEN "High" ELSE "Normal")
            /\ ~AnyRisky(logs) =>
                  summary[1].risk_level = (IF t >= 50 THEN "Medium" ELSE "Low")

\* an assessment of exactly 50 rows, none risky: "High" activity, "Medium"
C7_Witness ==
    /\ pc = "done"
    /\ summary # <<>>
    /\ summary[1].total_events = 50
    /\ ~AnyRisky(logs)
    /\ logs[1].action = A_f_ail
    /\ summary[1].activity_rate = "High"
    /\ summary[1].risk_level = "Medium"

\* C8: at the end of a completed run the canonical table exists iff the raw
\* batch does and is its mapping, and the risk table exists iff the
\* canonical table does and is its scan.
C8_PipelineConsistent ==
    pc = "done" =>
        /\ "sdtm_df" \in DOMAIN session_state <=> "raw_df" \in DOMAIN session_state
        /\ "risks" \in DOMAIN session_state <=> "sdtm_df" \in DOMAIN session_state
        /\ "raw_df" \in DOMAIN session_state =>
              /\ session_state["sdtm_df"] = map_to_sdtm(session_state["raw_df"])
              /\ session_state["risks"] =
                     agentic_risk_detection(session_state["sdtm_df"])

\* a completed run started by "Generate Synthetic Data", after an earlier
\* run recorded a manual entry, whose tables agree with the new batch
C8_Witness ==
    /\ pc = "done"
    /\ button = "Generate Synthetic Data"
    /\ "audit" \in DOMAIN session_state
    /\ "risks" \in DOMAIN session_state
    /\ session_state["sdtm_df"][1].USUBJID = "SUBJ-002"
    /\ session_state["sdtm_df"][1].SEX = "U"
    /\ Len(session_state["risks"]) = 2

\* C9: the table changes only in the Submit handler of a run started by
\* "Submit", and then by exactly one appended row holding the submitted
\* action and source; no row is ever changed or removed.
C9_OnlySubmitInserts ==
    [][store' # store =>
          /\ pc = "submit"
          /\ button = "Submit"
          /\ Len(store') = Len(store) + 1
          /\ SubSeq(store', 1, Len(store)) = store
          /\ store'[Len(store')].action = action
          /\ store'[Len(store')].metadata = [source |-> source]]_vars

\* a run past its Submit handler with its one row in the table, and a
\* manual entry recorded earlier that left the table alone
C9_Witness ==
    /\ pc = "done"
    /\ button = "Submit"
    /\ source = "ai"
    /\ issued = 1
    /\ Len(store) = 1
    /\ store[1].action = A_FAIL
    /\ store[1].metadata.source = "ai"

\* C10: a run whose Submit carries a risky action and whose store calls
\* succeed reports "High" itself, and any run whose compliance query
\* succeeds reports "High" while a risky row has fewer than 100 newer rows.
C10_RiskySubmitStaysHigh ==
    /\ (pc = "done" /\ button = "Submit" /\ action \in RiskyTexts /\ logs # <<>>) =>
          /\ summary # <<>>
          /\ summary[1].risk_level = "High"
    /\ (pc = "done" /\ logs # <<>>
          /\ \E i \in DOMAIN store :
                store[i].action \in RiskyTexts /\ Len(store) - i < 100) =>
          /\ summary # <<>>
          /\ summary[1].risk_level = "High"

\* a run that still reports "High" for a risky row with exactly 99 newer
\* rows, the only risky row of the table
C10_Witness ==
    /\ pc = "done"
    /\ summary # <<>>
    /\ summary[1].risk_level = "High"
    /\ Len(store) = 100
    /\ store[1].action \in RiskyTexts
    /\ \A i \in 2..Len(store) : store[i].action \notin RiskyTexts

====
